---- MODULE Spec2Model ----
(***************************************************************************)
(* HWeather: the browser script of the weather page (location list,        *)
(* forecast request sequencing, API client, form) together with the        *)
(* backend location controllers it talks to, and the register controller.  *)
(*                                                                         *)
(* One action is one event handler (or one promise chain segment that runs *)
(* without yielding to the event loop).  The DOM is one record, `dom`; the *)
(* handlers' DOM helper functions are operators from a DOM record to a DOM *)
(* record and keep the names they have in the script.                      *)
(***************************************************************************)
EXTENDS Integers, Sequences, FiniteSets, TLC

\* ---------------------------------------------------------------- bounds
\* Requests the user starts on the page: forecast requests (Display
\* Forecast) and backend calls (form submission, delete, clear list).  The
\* eager get-locations call of the page load is not counted.
MaxOps == 2
\* The longest string typed into an input of the form.
MaxLen == 3
\* The longest string typed into the name input.
MaxNameLen == 2
\* Submissions of the typed form that reach the backend.
MaxSubmissions == 1
\* Requests the register controller serves.
MaxRequests == 4

\* Location names a user types.  The second has two consecutive blanks.
Names == {"a", "b  c"}
\* A (lat, lon) pair as typed.
Coords == {"31,35", "48,2"}
\* Session users: the page's own user and one other.
Users == {"me", "other"}

\* element.innerText read back from a rendered element: the rendered text,
\* in which a run of blanks is collapsed to one (white-space: normal).
InnerText(s) == IF s = "b  c" THEN "b c" ELSE s

VARIABLES
    isAPICallDone,            \* let isAPICallDone (undefined is falsy)
    isIMGCallDone,            \* let isIMGCallDone (undefined is falsy)
    didReachServer,           \* let didReachServer
    singletonRequestId,       \* ajaxUtils.singletonRequestId
    singletonAbortController, \* ajaxUtils.singletonAbortController, 0 = null
    fetches,                  \* forecast data fetches in flight
    locations,                \* const locations, used as a plain object
    dom,                      \* the page's DOM
    initRan,                  \* let initRan
    savedLocations,           \* let savedLocations
    page,                     \* "app", or the URL given to window.location.assign
    calls,                    \* backend API calls in flight
    nextCallId,               \* calls issued so far
    db,                       \* backend Location table
    lastEvent,                \* history: the handler that ran last
    hist,                     \* history of the latest forecast request
    clock,                    \* today's date on the user's machine, YYYYMMDD
    decoded,                  \* history: the dataseries decoded last
    form,                     \* the form's inputs and their error elements
    validated,                \* history: the value validated last, its summary
    probe,                    \* an error summary and the message chosen for it
    domAccess,                \* the DOM access cache and its last call
    registration              \* the register controller: users, sessions, requests

vars == <<isAPICallDone, isIMGCallDone, didReachServer, singletonRequestId,
          singletonAbortController, fetches, locations, dom, initRan,
          savedLocations, page, calls, nextCallId, db, lastEvent, hist,
          clock, decoded, form, validated, probe, domAccess, registration>>

forecastVars == <<isAPICallDone, isIMGCallDone, didReachServer,
                  singletonRequestId, singletonAbortController, fetches>>
listVars == <<locations, initRan, savedLocations>>
backendVars == <<db>>
callVars == <<calls, nextCallId>>
decodeVars == <<clock, decoded>>
formVars == <<form, validated, probe, domAccess>>
registerVars == <<registration>>

\* savedLocations: null, or the array of the get-locations answer.
null == [isNull |-> TRUE, list |-> <<>>]
Array(list) == [isNull |-> FALSE, list |-> list]

\* The user can start one more request.
CanStart == singletonRequestId + (nextCallId - 1) < MaxOps

\* The user can reach the page's controls: init has attached the handlers,
\* the page has not been left and no modal dialog covers it.
CanClick == initRan /\ page = "app" /\ dom.modal = <<>>

Event(kind, id, op, out) == [kind |-> kind, id |-> id, op |-> op, out |-> out]
\* Steps of the backend, the transport and the environment leave no event.
Quiet == Event("", 0, "", "")

\* ------------------------------------------------------------- utilities
RECURSIVE SeqToSet(_)
SeqToSet(s) == IF s = <<>> THEN {} ELSE {Head(s)} \cup SeqToSet(Tail(s))

RemoveAt(s, i) == SubSeq(s, 1, i - 1) \o SubSeq(s, i + 1, Len(s))

\* locations[key] is undefined unless the object has the property.
Has(locs, key) == key \in DOMAIN locs
\* locations[location.name] = location
Upsert(locs, location) ==
    [k \in DOMAIN locs \cup {location.name} |->
        IF k = location.name THEN location ELSE locs[k]]

\* ----------------------------------------------------- DOM helper functions
switchCarousel(d, on) == [d EXCEPT !.carousel = on]

\* Assigning img.src starts a load of that image and drops the one under way.
setForecastImageSrc(d, src) == [d EXCEPT !.imgSrc = src, !.imgLoading = TRUE]

switchImages(d, whatToShow, showPlaceholderForecastImage) ==
    LET d1 == IF showPlaceholderForecastImage
              THEN setForecastImageSrc(d, "placeholder") ELSE d
    IN  [d1 EXCEPT !.loadingImage = (whatToShow = "loading"),
                   !.forecastImage = (whatToShow = "forecast")]

showLoadingImage(d) == switchImages(d, "loading", FALSE)

showForecastImage(d, showPlaceholderImage) ==
    switchImages(d, "forecast", showPlaceholderImage)

showForecastAndImage(d, locationName) ==
    [switchCarousel(showForecastImage(d, FALSE), TRUE)
        EXCEPT !.title = locationName]

\* The dialog is <<>> while hidden and <<message>> while shown; the message
\* may be the empty string.
displayMessageInModal(d, message) == [d EXCEPT !.modal = <<message>>]

\* ------------------------------------------------------ Ajax coordinator
\* A validity test that accepts every request id.
AnyRequestIdValid(requestId) == TRUE

isSingletonRequestIdValid(requestId) == requestId = singletonRequestId

\* A coordinator that never aborts the stored controller.
NeverAbort(fs) == fs

\* getSingletonAbortSignal: abort() on the stored controller reaches the
\* fetch that listens to its signal, if that fetch is still in flight.
getSingletonAbortSignal(fs) ==
    IF singletonAbortController # 0
    THEN {IF f.id = singletonAbortController
          THEN [f EXCEPT !.aborted = TRUE] ELSE f : f \in fs}
    ELSE fs

\* ------------------------------------------------------- error messages
getAjaxErrorMessage(reached, errorCode, isSyntaxError) ==
    IF ~reached THEN "badConnection"
    ELSE IF isSyntaxError THEN "syntaxErrorMessage"
    ELSE IF errorCode >= 400 /\ errorCode < 500 THEN "errorCode4XX"
    ELSE IF errorCode >= 500 /\ errorCode < 600 THEN "errorCode500"
    ELSE "generalAjaxError"

\* An error value: what toString() starts with, its status property (0 when
\* it has none), whether it is a SyntaxError, and its message.
Err(name, status, message) == [name |-> name, status |-> status, message |-> message]

\* The DOMException an aborted fetch rejects with.  Its name is AbortError
\* everywhere; its message is the browser's own wording.
AbortMessages == {"The user aborted a request.", "The operation was aborted."}
AbortError(message) == Err("AbortError", 0, message)
NetworkError == Err("TypeError", 0, "Failed to fetch")
StatusError(status) == Err("Error", status, "Server error code")
JsonSyntaxError == Err("SyntaxError", 0, "Unexpected token")
InvalidForecastData == Err("Error", 0, "Invalid forecast data")

getErrorMessage(error, reached) ==
    getAjaxErrorMessage(reached, error.status, error.name = "SyntaxError")

\* onError(error, useErrorMessage): the DOM it leaves.  `reached` is the
\* value of didReachServer when it runs.
onError(d, error, useErrorMessage, reached) ==
    IF error.name = "AbortError" /\ error.message = "The user aborted a request."
    THEN d
    ELSE displayMessageInModal(
            switchCarousel(showForecastImage(d, TRUE), FALSE),
            IF useErrorMessage THEN error.message
            ELSE getErrorMessage(error, reached))

\* An error handler that drops the error.
SwallowError(d, error, reached) == d

onErrorUseMessage(d, error, reached) == onError(d, error, TRUE, reached)

\* ------------------------------------------------------------ selection
\* domAccess.querySelector('#locations-container div.selected'): the first
\* selected name button, 0 when there is none (undefined).
RECURSIVE FirstSelected(_, _)
FirstSelected(rows, i) ==
    IF i > Len(rows) THEN 0
    ELSE IF rows[i].selected THEN i ELSE FirstSelected(rows, i + 1)

selectedLocationItem(d) == FirstSelected(d.rows, 1)

\* ================================================================ forecast
\* History: the data path of request f has failed.  hist.data and hist.image
\* record the valid data response and the image event handled since the
\* latest request was issued, hist.failed a failure of its data path, and
\* hist.afterError that the request before it had failed.  hist.rendered
\* counts the runs of displaySavedLocations, and hist.name is the location
\* the forecast in the cards was requested for.
DataPathFailed(f) ==
    [hist EXCEPT !.failed = @ \/ f.id = singletonRequestId]

\* updateWeatherForecast(location), reached with a defined location.
updateWeatherForecast(name) ==
    LET requestId == singletonRequestId + 1 IN
    /\ isAPICallDone' = FALSE
    /\ didReachServer' = FALSE
    /\ fetches' = getSingletonAbortSignal(fetches) \cup
                  {[id |-> requestId, name |-> name, stage |-> "sent",
                    aborted |-> FALSE]}
    /\ singletonAbortController' = requestId
    /\ singletonRequestId' = requestId
    /\ hist' = [data |-> FALSE, image |-> FALSE, failed |-> FALSE,
                afterError |-> hist.failed, rendered |-> hist.rendered,
                name |-> hist.name]
    /\ lastEvent' = Event("issue", requestId, "forecast", "sent")
    /\ UNCHANGED isIMGCallDone

\* displayForcastForSelectedLocation up to the call of updateWeatherForecast.
displayForcastForSelectedLocation(d) ==
    switchCarousel(setForecastImageSrc(showLoadingImage(d), "forecast"), FALSE)

\* The click handler of the Display Forecast button.
handleDisplayForecastButtonClick ==
    /\ UNCHANGED <<decodeVars, formVars, registerVars>>
    /\ CanClick /\ CanStart
    /\ UNCHANGED <<listVars, page, callVars, backendVars>>
    /\ LET item == selectedLocationItem(dom) IN
       IF item = 0
       THEN /\ dom' = displayMessageInModal(dom, "First select a location")
            /\ lastEvent' = Event("issue", 0, "forecast", "noSelection")
            /\ UNCHANGED <<forecastVars, hist>>
       ELSE LET key == InnerText(dom.rows[item].name) IN
            /\ dom' = displayForcastForSelectedLocation(dom)
            /\ IF ~Has(locations, key)
               THEN \* TypeError at location.product = ...: the handler ends
                    /\ lastEvent' = Event("issue", 0, "forecast", "TypeError")
                    /\ UNCHANGED <<forecastVars, hist>>
               ELSE updateWeatherForecast(locations[key].name)

\* displayWeatherForecast(interestingInfo, locationName, requestId)
displayWeatherForecast(f) ==
    IF ~isSingletonRequestIdValid(f.id)
    THEN UNCHANGED <<isAPICallDone, dom, hist>>
    ELSE /\ isAPICallDone' = TRUE
         /\ hist' = [hist EXCEPT !.data = TRUE, !.name = f.name]
         /\ dom' = LET d1 == [dom EXCEPT !.cards = f.id] IN
                   IF isIMGCallDone THEN showForecastAndImage(d1, f.name)
                   ELSE d1

\* fetch(api_call) resolves with a response: getResponseJson runs.
GetResponseJson(f, status) ==
    /\ didReachServer' = TRUE
    /\ IF status # 200
       THEN /\ dom' = onError(dom, StatusError(status), FALSE, TRUE)
            /\ fetches' = fetches \ {f}
            /\ hist' = DataPathFailed(f)
       ELSE /\ fetches' = (fetches \ {f}) \cup {[f EXCEPT !.stage = "body"]}
            /\ UNCHANGED <<dom, hist>>
    /\ lastEvent' = Event("response", f.id, "forecast",
                          IF status = 200 THEN "ok" ELSE "status")
    /\ UNCHANGED <<isAPICallDone, isIMGCallDone, singletonRequestId,
                   singletonAbortController>>

\* ------------------------------------------------------- forecast data
\* The keys of the two lookup tables.  Wind codes arrive as numbers; a
\* property lookup turns the key into its decimal string, which is how
\* the codes are written here.
_7timer_weatherTypeToDesc ==
    {"clear", "pcloudy", "mcloudy", "cloudy", "humid", "lightrain",
     "oshower", "ishower", "lightsnow", "rain", "snow", "rainsnow"}
_7timer_windValuesToDesc == {"1", "2", "3", "4", "5", "6", "7", "8"}

\* Both tables are object literals, so a lookup also finds the property
\* names every object inherits from Object.prototype.
ObjectPrototype == {"constructor", "toString", "hasOwnProperty", "valueOf"}

\* typeof table[key] !== 'undefined'
IsDefinedIn(table, key) == key \in table \/ key \in ObjectPrototype

\* The Gregorian calendar, as Date keeps it.
IsLeapYear(y) == (y % 4 = 0 /\ y % 100 # 0) \/ y % 400 = 0
DaysInMonth(y, m) ==
    CASE m \in {4, 6, 9, 11} -> 30
      [] m = 2 -> IF IsLeapYear(y) THEN 29 ELSE 28
      [] OTHER -> 31
RECURSIVE DaysBeforeMonth(_, _)
DaysBeforeMonth(y, m) ==
    IF m = 1 THEN 0 ELSE DaysBeforeMonth(y, m - 1) + DaysInMonth(y, m - 1)
DaysBeforeYear(y) ==
    365 * (y - 1) + ((y - 1) \div 4) - ((y - 1) \div 100) + ((y - 1) \div 400)

\* new Date(year, monthIndex, date) as a day number: a month index outside
\* 0..11 carries into the year, a day outside the month carries into the
\* neighbouring months, and a year of 0..99 means 1900 + year.
NewDate(year, monthIndex, date) ==
    LET full == IF year \in 0..99 THEN 1900 + year ELSE year
        y == full + (monthIndex \div 12)
        m == (monthIndex % 12) + 1
    IN DaysBeforeYear(y) + DaysBeforeMonth(y, m) + date

\* new Date() followed by setHours(0, 0, 0, 0): today's day number.
Today(now) == NewDate(now \div 10000, ((now \div 100) % 100) - 1, now % 100)

\* A window that leaves out its last day.
validateDateExclusive(dateObj, now) ==
    dateObj >= Today(now) /\ dateObj < Today(now) + 7

\* validation.validateDate(dateObj)
validateDate(dateObj, now) ==
    LET today == Today(now)
        todayPlus7 == today + 7
    IN dateObj >= today /\ dateObj <= todayPlus7

\* getDateString(dailyForecast): the decoded date and whether no error was
\* thrown.
getDateString(dailyForecast, now) ==
    LET date == dailyForecast.date % 100
        month == ((dailyForecast.date \div 100) % 100) - 1
        year == dailyForecast.date \div 10000
        dateObj == NewDate(year, month, date)
    IN [ok |-> validateDate(dateObj, now), dateObj |-> dateObj]

\* extractInfoFromDataObj(dailyForecast): TRUE when nothing is thrown.
extractInfoFromDataObj(dailyForecast, now) ==
    /\ getDateString(dailyForecast, now).ok
    /\ IsDefinedIn(_7timer_weatherTypeToDesc, dailyForecast.weather)
    /\ IsDefinedIn(_7timer_windValuesToDesc, dailyForecast.wind10m_max)

\* getInterestingInfo(responseJson): TRUE when no entry throws.
getInterestingInfo(dataseries, now) ==
    \A i \in 1..Len(dataseries) : extractInfoFromDataObj(dataseries[i], now)

\* response.json() settles: getInterestingInfo, displayWeatherForecast or
\* the catch handler run.
BodySettles(f, body) ==
    /\ fetches' = fetches \ {f}
    /\ lastEvent' = Event("data", f.id, "forecast", body)
    /\ CASE body = "valid" -> displayWeatherForecast(f)
         [] body = "invalid" ->
              /\ dom' = onError(dom, InvalidForecastData, FALSE, didReachServer)
              /\ hist' = DataPathFailed(f)
              /\ UNCHANGED isAPICallDone
         [] body = "syntax" ->
              /\ dom' = onError(dom, JsonSyntaxError, FALSE, didReachServer)
              /\ hist' = DataPathFailed(f)
              /\ UNCHANGED isAPICallDone
    /\ UNCHANGED <<isIMGCallDone, didReachServer, singletonRequestId,
                   singletonAbortController>>

FetchResolves(f, status) ==
    /\ UNCHANGED <<decodeVars, formVars, registerVars>>
    /\ f \in fetches /\ f.stage = "sent" /\ ~f.aborted /\ page = "app"
    /\ GetResponseJson(f, status)
    /\ UNCHANGED <<listVars, page, callVars, backendVars>>

FetchBodySettles(f, body) ==
    /\ UNCHANGED <<decodeVars, formVars, registerVars>>
    /\ f \in fetches /\ f.stage = "body" /\ ~f.aborted /\ page = "app"
    /\ BodySettles(f, body)
    /\ UNCHANGED <<listVars, page, callVars, backendVars>>

\* The same step with the body spelled out: response.json() resolves with
\* the object whose dataseries is given.
DecodeBody(f, dataseries) ==
    /\ f \in fetches /\ f.stage = "body" /\ ~f.aborted /\ page = "app"
    /\ BodySettles(f, IF getInterestingInfo(dataseries, clock)
                      THEN "valid" ELSE "invalid")
    /\ decoded' = dataseries
    /\ UNCHANGED <<clock, formVars, registerVars, listVars, page, callVars,
                   backendVars>>

\* fetch rejects: no response (network failure).
FetchFails(f) ==
    /\ UNCHANGED <<decodeVars, formVars, registerVars>>
    /\ f \in fetches /\ f.stage = "sent" /\ ~f.aborted /\ page = "app"
    /\ fetches' = fetches \ {f}
    /\ dom' = onError(dom, NetworkError, FALSE, didReachServer)
    /\ lastEvent' = Event("data", f.id, "forecast", "network")
    /\ hist' = DataPathFailed(f)
    /\ UNCHANGED <<isAPICallDone, isIMGCallDone, didReachServer,
                   singletonRequestId, singletonAbortController,
                   listVars, page, callVars, backendVars>>

\* An aborted fetch rejects (the fetch promise or response.json()) with
\* AbortError.
FetchAborts(f, message) ==
    /\ UNCHANGED <<decodeVars, formVars, registerVars>>
    /\ f \in fetches /\ f.aborted /\ page = "app"
    /\ fetches' = fetches \ {f}
    /\ dom' = onError(dom, AbortError(message), FALSE, didReachServer)
    /\ lastEvent' = Event("data", f.id, "forecast", "abort")
    /\ UNCHANGED <<isAPICallDone, isIMGCallDone, didReachServer,
                   singletonRequestId, singletonAbortController, hist,
                   listVars, page, callVars, backendVars>>

\* Cancellation is cooperative: a transport that does not honour the abort
\* signal still delivers the superseded request's response.
LateFetchResolves(f, status) ==
    /\ UNCHANGED <<decodeVars, formVars, registerVars>>
    /\ f \in fetches /\ f.stage = "sent" /\ f.aborted /\ page = "app"
    /\ GetResponseJson(f, status)
    /\ UNCHANGED <<listVars, page, callVars, backendVars>>

LateFetchBodySettles(f, body) ==
    /\ UNCHANGED <<decodeVars, formVars, registerVars>>
    /\ f \in fetches /\ f.stage = "body" /\ f.aborted /\ page = "app"
    /\ BodySettles(f, body)
    /\ UNCHANGED <<listVars, page, callVars, backendVars>>

\* A handler that takes no notice of the image event.
IgnoreImageEvent(d) ==
    /\ dom' = d
    /\ UNCHANGED <<isIMGCallDone, hist>>

\* handleImageLoaded: the forecast image's load event.
handleImageLoaded(d) ==
    /\ isIMGCallDone' = TRUE
    /\ hist' = [hist EXCEPT !.image = TRUE]
    /\ IF isAPICallDone
       THEN LET item == selectedLocationItem(d) IN
            IF item = 0
            THEN dom' = d   \* TypeError at selectedLocationItem.innerText
            ELSE dom' = showForecastAndImage(d, InnerText(d.rows[item].name))
       ELSE dom' = d

\* The image load under way ends: the img element fires load or error.
\* The placeholder is an asset of the application and loads.
ImageEvent(kind) ==
    /\ UNCHANGED <<decodeVars, formVars, registerVars>>
    /\ page = "app" /\ dom.imgLoading
    /\ kind = "error" => dom.imgSrc = "forecast"
    /\ lastEvent' = Event("image", 0, "forecast", kind)
    /\ UNCHANGED <<isAPICallDone, didReachServer, singletonRequestId,
                   singletonAbortController, fetches, listVars, page,
                   callVars, backendVars>>
    /\ IF ~initRan
       THEN \* no listener attached yet
            /\ dom' = [dom EXCEPT !.imgLoading = FALSE]
            /\ UNCHANGED <<isIMGCallDone, hist>>
       ELSE IF kind = "load"
       THEN handleImageLoaded([dom EXCEPT !.imgLoading = FALSE])
       ELSE \* handleImageLoadError: event.target.src = 'images/no-img.png'
            handleImageLoaded(setForecastImageSrc(dom, "placeholder"))

\* ============================================================== validation
\* Strings typed into the form are sequences of characters.
Digits == {"0", "1", "2", "3", "4", "5", "6", "7", "8", "9"}
DigitValue(c) ==
    CASE c = "0" -> 0 [] c = "1" -> 1 [] c = "2" -> 2 [] c = "3" -> 3
      [] c = "4" -> 4 [] c = "5" -> 5 [] c = "6" -> 6 [] c = "7" -> 7
      [] c = "8" -> 8 [] c = "9" -> 9

\* String.prototype.trim
RECURSIVE TrimStart(_)
TrimStart(s) ==
    IF s # <<>> /\ Head(s) = " " THEN TrimStart(Tail(s)) ELSE s
RECURSIVE TrimEnd(_)
TrimEnd(s) ==
    IF s # <<>> /\ s[Len(s)] = " " THEN TrimEnd(SubSeq(s, 1, Len(s) - 1))
    ELSE s
getTrimmedValue(value) == TrimEnd(TrimStart(value))

\* stringValue.match(/^([-+][0-9])?[0-9]*(\.[0-9])?[0-9]*$/) !== null:
\* a signed digit or nothing, digits, a dot with a digit or nothing, digits.
isDecimal(stringValue) ==
    LET n == Len(stringValue) IN
    \E a \in {0, 2}, b \in 0..n, c \in {0, 2}, d \in 0..n :
        /\ a + b + c + d = n
        /\ a = 2 => stringValue[1] \in {"-", "+"} /\ stringValue[2] \in Digits
        /\ \A i \in (a + 1)..(a + b) : stringValue[i] \in Digits
        /\ c = 2 => /\ stringValue[a + b + 1] = "."
                    /\ stringValue[a + b + 2] \in Digits
        /\ \A i \in (a + b + c + 1)..n : stringValue[i] \in Digits

\* The number of digits of s from position i on.
RECURSIVE DigitRun(_, _)
DigitRun(s, i) ==
    IF i <= Len(s) /\ s[i] \in Digits THEN 1 + DigitRun(s, i + 1) ELSE 0

\* The value of the k digits of s from position i on.
RECURSIVE DigitsValue(_, _, _)
DigitsValue(s, i, k) ==
    IF k = 0 THEN 0
    ELSE 10 * DigitsValue(s, i, k - 1) + DigitValue(s[i + k - 1])

RECURSIVE PowerOfTen(_)
PowerOfTen(k) == IF k = 0 THEN 1 ELSE 10 * PowerOfTen(k - 1)

\* parseFloat(stringValue): the longest prefix that is a decimal literal
\* (a sign, digits, a dot, digits; at least one digit), as the fraction
\* num / den, or NaN when there is none.  Exponents do not occur in the
\* strings typed here.
parseFloat(stringValue) ==
    LET s == TrimStart(stringValue)
        signed == s # <<>> /\ s[1] \in {"-", "+"}
        start == IF signed THEN 2 ELSE 1
        whole == DigitRun(s, start)
        dotted == start + whole <= Len(s) /\ s[start + whole] = "."
        frac == IF dotted THEN DigitRun(s, start + whole + 1) ELSE 0
        magnitude == DigitsValue(s, start, whole) * PowerOfTen(frac)
                     + DigitsValue(s, start + whole + 1, frac)
    IN [nan |-> whole + frac = 0,
        num |-> IF signed /\ s[1] = "-" THEN 0 - magnitude ELSE magnitude,
        den |-> PowerOfTen(frac)]

limits == [lat |-> <<-90, 90>>, lon |-> <<-180, 180>>]

\* isInRange(stringValue, id): comparisons with NaN are false.
isInRange(stringValue, id) ==
    LET parsedValue == parseFloat(stringValue) IN
    /\ ~parsedValue.nan
    /\ parsedValue.num >= limits[id][1] * parsedValue.den
    /\ parsedValue.num <= limits[id][2] * parsedValue.den

\* A summary that evaluates the range for every value.
SummaryWithRangeAlways(stringValue, id) ==
    [isEmpty |-> stringValue = <<>>,
     isDecimal |-> isDecimal(stringValue),
     isInRange |-> isInRange(stringValue, id)]

latLonErrorSummary(stringValue, id) ==
    [isEmpty |-> stringValue = <<>>,
     isDecimal |-> isDecimal(stringValue),
     isInRange |-> IF isDecimal(stringValue)
                   THEN isInRange(stringValue, id) ELSE FALSE]

isLatLonValid(stringValue, id) ==
    LET errorSummary == latLonErrorSummary(stringValue, id) IN
    ~errorSummary.isEmpty /\ errorSummary.isDecimal /\ errorSummary.isInRange

\* A selection that looks at the range before the digits.
RangeBeforeDecimal(errorSummary, isMissingMessage, notInRangeMessage) ==
    IF errorSummary.isEmpty THEN isMissingMessage
    ELSE IF ~errorSummary.isInRange THEN notInRangeMessage
    ELSE IF ~errorSummary.isDecimal THEN "notDecimal"
    ELSE ""

\* errorMessages.getErrorMessage(errorSummary, isMissingMessage,
\* notInRangeMessage); messages are named by their keys in errorMessages.
errorMessagesGetErrorMessage(errorSummary, isMissingMessage, notInRangeMessage) ==
    IF errorSummary.isEmpty THEN isMissingMessage
    ELSE IF ~errorSummary.isDecimal THEN "notDecimal"
    ELSE IF ~errorSummary.isInRange THEN notInRangeMessage
    ELSE ""

getLatErrorMessage(errorSummary) ==
    errorMessagesGetErrorMessage(errorSummary, "latMissing", "latNotInRange")
getLonErrorMessage(errorSummary) ==
    errorMessagesGetErrorMessage(errorSummary, "lonMissing", "lonNotInRange")

latLonErrorMessageProvider(stringValue, inputId) ==
    LET errorSummary == latLonErrorSummary(stringValue, inputId) IN
    IF inputId = "lat" THEN getLatErrorMessage(errorSummary)
    ELSE getLonErrorMessage(errorSummary)

\* ---------------------------------------------------- DOM access cache
\* A Map of the cache: the keys it holds as entries (what map.has answers)
\* and the keys assigned to it as properties by map[id] = value.
EmptyMap == [entries |-> {}, properties |-> {}]

\* getFromMapById(id, map, domAccessor, refresh): the map afterwards and
\* whether domAccessor, the query of the document, was called.
getFromMapById(id, map, refresh) ==
    LET query == id \notin map.entries \/ refresh IN
    [map |-> IF query THEN [map EXCEPT !.properties = @ \cup {id}] ELSE map,
     queried |-> query]

InitialDomAccess ==
    [errorElementsByInputId |-> EmptyMap,
     lastCall |-> [id |-> "", refresh |-> FALSE, fetchedBefore |-> FALSE,
                   queried |-> FALSE]]

\* domAccess.getErrorElement(inputId, refresh)
getErrorElement(da, inputId, refresh) ==
    LET got == getFromMapById(inputId, da.errorElementsByInputId, refresh) IN
    [errorElementsByInputId |-> got.map,
     lastCall |-> [id |-> inputId, refresh |-> refresh,
                   fetchedBefore |->
                       inputId \in da.errorElementsByInputId.properties,
                   queried |-> got.queried]]

\* The keys of the errorMessages table.
ErrorMessageKeys ==
    {"nameMissing", "latMissing", "lonMissing", "notDecimal", "latNotInRange",
     "lonNotInRange", "badConnection", "errorCode4XX", "errorCode500",
     "syntaxErrorMessage", "generalAjaxError"}
ErrorSummaries ==
    [isEmpty : BOOLEAN, isDecimal : BOOLEAN, isInRange : BOOLEAN]

\* ------------------------------------------------------------- the form
\* An error element is <<>> when hidden and <<text>> when shown.
InitialForm ==
    [value |-> [name |-> <<>>, lat |-> <<>>, lon |-> <<>>],
     error |-> [name |-> <<>>, lat |-> <<>>, lon |-> <<>>]]
NothingValidated ==
    [inputId |-> "", stringValue |-> <<>>,
     errorSummary |-> [isEmpty |-> FALSE, isDecimal |-> FALSE,
                       isInRange |-> FALSE]]
NoProbe ==
    [applied |-> FALSE, errorSummary |-> NothingValidated.errorSummary,
     isMissingMessage |-> "", notInRangeMessage |-> "", errorMessage |-> ""]

\* A name validation that accepts the empty name.
AnyNameValid(name, id) == TRUE

\* validation.isNameValid(name), called with the input's id as a second
\* argument, which it ignores.
isNameValid(name, id) == name # <<>>

getNameErrorMessage == "nameMissing"
nameErrorMessageProvider(stringValue, inputId) == getNameErrorMessage

\* validateStringValue(stringValue, inputId, validation,
\* errorMessageProvider, showErrorOnEmpty): its return value and the error
\* element after it.  The two function arguments are given by what they
\* return for (stringValue, inputId).
validateStringValue(stringValue, inputId, validation, errorMessageProvider, showErrorOnEmpty) ==
    IF validation
    THEN [retVal |-> TRUE, errorElement |-> <<>>]
    ELSE IF showErrorOnEmpty \/ stringValue # <<>>
    THEN [retVal |-> FALSE, errorElement |-> <<errorMessageProvider>>]
    ELSE [retVal |-> FALSE, errorElement |-> <<>>]

\* validateStringValue with validation.isNameValid and
\* nameErrorMessageProvider, and with validation.isLatLonValid and
\* latLonErrorMessageProvider.
validateName(stringValue, showErrorOnEmpty) ==
    validateStringValue(stringValue, "name", isNameValid(stringValue, "name"),
                        nameErrorMessageProvider(stringValue, "name"),
                        showErrorOnEmpty)
validateLatLon(stringValue, inputId, showErrorOnEmpty) ==
    validateStringValue(stringValue, inputId,
                        isLatLonValid(stringValue, inputId),
                        latLonErrorMessageProvider(stringValue, inputId),
                        showErrorOnEmpty)

\* One key pressed in the lat or lon input: the browser edits the value and
\* the keyup listener handleLatLonKeyup validates it.
handleLatLonKeyup(inputId, key) ==
    /\ initRan /\ page = "app"
    /\ key = "Backspace" => form.value[inputId] # <<>>
    /\ key # "Backspace" => Len(form.value[inputId]) < MaxLen
    /\ LET value == IF key = "Backspace"
                    THEN SubSeq(form.value[inputId], 1,
                                Len(form.value[inputId]) - 1)
                    ELSE Append(form.value[inputId], key)
           stringValue == getTrimmedValue(value)
       IN  /\ form' = [form EXCEPT
                 !.value[inputId] = value,
                 !.error[inputId] =
                     validateLatLon(stringValue, inputId, FALSE).errorElement]
           /\ validated' = [inputId |-> inputId, stringValue |-> stringValue,
                            errorSummary |->
                                latLonErrorSummary(stringValue, inputId)]
           /\ domAccess' = getErrorElement(domAccess, inputId, FALSE)
    /\ UNCHANGED <<forecastVars, listVars, dom, page, callVars, backendVars,
                   lastEvent, hist, decodeVars, probe, registerVars>>

\* One key pressed in the name input: the keyup listener handleNameKeyup
\* validates the trimmed value, without an error for an empty one.
handleNameKeyup(key) ==
    /\ initRan /\ page = "app"
    /\ Len(form.value.name) < MaxNameLen
    /\ LET value == Append(form.value.name, key)
           stringValue == getTrimmedValue(value)
       IN  /\ form' = [form EXCEPT
                 !.value.name = value,
                 !.error.name =
                     validateName(stringValue, FALSE).errorElement]
           /\ domAccess' = getErrorElement(domAccess, "name", FALSE)
    /\ UNCHANGED <<forecastVars, listVars, dom, page, callVars, backendVars,
                   lastEvent, hist, decodeVars, validated, probe,
                   registerVars>>

\* collectLocationInfo: the trimmed values of the three inputs.
collectLocationInfo(f) ==
    [name |-> getTrimmedValue(f.value.name),
     lat |-> getTrimmedValue(f.value.lat),
     lon |-> getTrimmedValue(f.value.lon)]

\* clearForm: every input is emptied and a keyup event dispatched on it,
\* whose listener validates the empty value and hides the error element.
clearForm(f) ==
    [value |-> [name |-> <<>>, lat |-> <<>>, lon |-> <<>>],
     error |-> [name |-> validateName(<<>>, FALSE).errorElement,
                lat |-> validateLatLon(<<>>, "lat", FALSE).errorElement,
                lon |-> validateLatLon(<<>>, "lon", FALSE).errorElement]]

\* ============================================================ location list
showClearListButton(d) == [d EXCEPT !.clearButton = TRUE]

\* The row of addLocationToDOM's loop that stops it: a row whose name
\* button reads location.name.
nameIsInListView(d, location) ==
    \E i \in 1..Len(d.rows) : InnerText(d.rows[i].name) = location.name

\* An addition that leaves the rows already in the list as they are.
KeepCornersWhenAddingRows(rows) == rows

\* correctListBordersAndCornersWhenAddingRows on the rows already in the
\* list: the last row loses its rounded bottom corners.
correctListBordersAndCornersWhenAddingRows(rows) ==
    IF rows = <<>> THEN rows
    ELSE [rows EXCEPT ![Len(rows)].roundedBottom = FALSE]

\* createNameButton and createDeleteButton give a row rounded bottom
\* corners; correctListBordersAndCornersWhenAddingRows adds the rounded top
\* corners when the list is empty.
addLocationToDOM(d, location) ==
    IF nameIsInListView(d, location) THEN d
    ELSE [d EXCEPT !.noLocationsYet = FALSE,
                   !.rows = Append(
                       correctListBordersAndCornersWhenAddingRows(@),
                       [id |-> d.nextRowId,
                        name |-> location.name,
                        selected |-> FALSE,
                        roundedTop |-> (@ = <<>>),
                        roundedBottom |-> TRUE]),
                   !.nextRowId = @ + 1,
                   !.locationsDiv = TRUE]

\* addLocationToListAction(responseJson) on the pair (locations, DOM).
addLocationToListAction(st, location, message) ==
    LET d1 == showClearListButton(addLocationToDOM(st.dom, location)) IN
    [st EXCEPT !.locs = Upsert(st.locs, location),
               !.dom = IF message = "Location updated."
                       THEN displayMessageInModal(d1, "Location updated successfully.")
                       ELSE d1]

\* A page that never renders the saved locations.
RenderNothing(st, saved) == st

\* displaySavedLocations: addLocationToList(location, false) for each.
RECURSIVE addSavedLocations(_, _)
addSavedLocations(st, saved) ==
    IF saved = <<>> THEN st
    ELSE addSavedLocations(addLocationToListAction(st, Head(saved), ""),
                           Tail(saved))

displaySavedLocations(st, saved) ==
    addSavedLocations([st EXCEPT !.dom.noLocationsYet = TRUE,
                                 !.rendered = @ + 1], saved)

RowIndex(rows, rowId) ==
    IF \E i \in 1..Len(rows) : rows[i].id = rowId
    THEN CHOOSE i \in 1..Len(rows) : rows[i].id = rowId
    ELSE 0

\* handleTopRow(divRow) for the first row: the next row gets rounded top
\* corners.
handleTopRow(rows) == [rows EXCEPT ![2].roundedTop = TRUE]

\* handleBottomRow(divRow) for the last row: the row before it gets rounded
\* bottom corners.
handleBottomRow(rows) == [rows EXCEPT ![Len(rows) - 1].roundedBottom = TRUE]

\* removeLocationFromDOM(divRow, ...) for a row that is in the list.
removeLocationFromDOM(d, rowId) ==
    LET i == RowIndex(d.rows, rowId)
        hasNext == i < Len(d.rows)
        hasPrevious == i > 1
        styled == IF hasNext /\ ~hasPrevious THEN handleTopRow(d.rows)
                  ELSE IF ~hasNext /\ hasPrevious THEN handleBottomRow(d.rows)
                  ELSE d.rows
        rows == RemoveAt(styled, i) IN
    IF rows = <<>>
    THEN [d EXCEPT !.rows = rows, !.noLocationsYet = TRUE, !.clearButton = FALSE]
    ELSE [d EXCEPT !.rows = rows]

\* The success handler of handleClearButtonClick.
clearLocationsFromDOM(d) ==
    [d EXCEPT !.rows = <<>>, !.noLocationsYet = TRUE, !.clearButton = FALSE]

\* getAllLocationNames
RECURSIVE getAllLocationNames(_)
getAllLocationNames(rows) ==
    IF rows = <<>> THEN <<>>
    ELSE <<InnerText(Head(rows).name)>> \o getAllLocationNames(Tail(rows))

\* A click action that marks the clicked row and leaves the others alone.
SelectWithoutDeselecting(d, i) == [d EXCEPT !.rows[i].selected = TRUE]

\* nameButtonClickAction(locationsDiv, nameButton) for the i-th row: the
\* selected state of the rows.  (displayLocationDetails, which it calls
\* last, writes only the location-details element.)
nameButtonClickAction(d, i) ==
    [d EXCEPT !.rows = [j \in 1..Len(d.rows) |->
                           [d.rows[j] EXCEPT !.selected = (j = i)]]]

\* ================================================================ API client
NoResp == [kind |-> "none", message |-> "", url |-> "", locations |-> <<>>]
OkResp(message) == [NoResp EXCEPT !.kind = "ok", !.message = message]
Redirect(url) == [NoResp EXCEPT !.kind = "ok", !.url = url]

\* An answer with a non-ok status whose JSON body has a message field.
StatusAnswer == [NoResp EXCEPT !.kind = "status", !.message = "Server failure"]

NoLocation == [name |-> "", latlon |-> ""]

Call(id, op, location, names, row) ==
    [id |-> id, op |-> op, location |-> location, names |-> names, row |-> row,
     user |-> "me", stage |-> "sent", target |-> 0, rowsDeleted |-> 0,
     resp |-> NoResp]

\* api.call up to fetch(): the before-hook, when api.init has set it.
doBeforeApiCall(d) == [d EXCEPT !.apiLoading = TRUE]
\* An after-hook that leaves the loading image shown.
KeepLoading(d) == d

doAfterApiCall(d) == [d EXCEPT !.apiLoading = FALSE]

call(op, location, names, row) ==
    /\ CanStart
    /\ nextCallId' = nextCallId + 1
    /\ calls' = calls \cup {Call(nextCallId + 1, op, location, names, row)}

\* addLocationToList(location, updateBackend = true) from the form, then
\* clearForm.
handleFormSubmission(name, latlon) ==
    /\ UNCHANGED <<decodeVars, formVars, registerVars>>
    /\ CanClick
    /\ call("add", [name |-> name, latlon |-> latlon], <<>>, 0)
    /\ dom' = doBeforeApiCall(dom)
    /\ lastEvent' = Event("submit", nextCallId + 1, "add", "sent")
    /\ UNCHANGED <<forecastVars, listVars, page, backendVars, hist>>

\* handleFormSubmission(event) on the form as typed: the three inputs are
\* validated, with an error for an empty one; when all three pass, the
\* location is sent to the backend and the form is cleared.
handleFormSubmissionEvent ==
    /\ CanClick
    /\ LET newLocation == collectLocationInfo(form)
           name == validateName(newLocation.name, TRUE)
           lat == validateLatLon(newLocation.lat, "lat", TRUE)
           lon == validateLatLon(newLocation.lon, "lon", TRUE)
           didValidationPass == name.retVal /\ lat.retVal /\ lon.retVal
           validate(da) ==
               getErrorElement(getErrorElement(getErrorElement(
                   da, "name", FALSE), "lat", FALSE), "lon", FALSE)
       IN  IF didValidationPass
           THEN /\ nextCallId - 1 < MaxSubmissions
                /\ call("add", newLocation, <<>>, 0)
                /\ dom' = doBeforeApiCall(dom)
                /\ form' = clearForm(form)
                /\ validated' = [inputId |-> "lon", stringValue |-> <<>>,
                                 errorSummary |-> latLonErrorSummary(<<>>, "lon")]
                /\ domAccess' = validate(validate(domAccess))
                /\ lastEvent' = Event("submit", nextCallId + 1, "add", "sent")
           ELSE /\ form' = [form EXCEPT
                               !.error = [name |-> name.errorElement,
                                          lat |-> lat.errorElement,
                                          lon |-> lon.errorElement]]
                /\ validated' = [inputId |-> "lon",
                                 stringValue |-> newLocation.lon,
                                 errorSummary |->
                                     latLonErrorSummary(newLocation.lon, "lon")]
                /\ domAccess' = validate(domAccess)
                /\ lastEvent' = Event("submit", 0, "add", "invalid")
                /\ UNCHANGED <<dom, callVars>>
    /\ UNCHANGED <<forecastVars, listVars, page, backendVars, hist,
                   decodeVars, probe, registerVars>>

handleDeleteButtonClick(i) ==
    /\ UNCHANGED <<decodeVars, formVars, registerVars>>
    /\ CanClick
    /\ i \in 1..Len(dom.rows)
    /\ call("remove", NoLocation, <<InnerText(dom.rows[i].name)>>, dom.rows[i].id)
    /\ dom' = doBeforeApiCall(dom)
    /\ lastEvent' = Event("delete", nextCallId + 1, "remove", "sent")
    /\ UNCHANGED <<forecastVars, listVars, page, backendVars, hist>>

handleClearButtonClick ==
    /\ UNCHANGED <<decodeVars, formVars, registerVars>>
    /\ CanClick
    /\ dom.clearButton
    /\ call("remove", NoLocation, getAllLocationNames(dom.rows), 0)
    /\ dom' = doBeforeApiCall(dom)
    /\ lastEvent' = Event("clear", nextCallId + 1, "remove", "sent")
    /\ UNCHANGED <<forecastVars, listVars, page, backendVars, hist>>

SelectRow(i) ==
    /\ UNCHANGED <<decodeVars, formVars, registerVars>>
    /\ CanClick
    /\ i \in 1..Len(dom.rows)
    /\ dom' = nameButtonClickAction(dom, i)
    /\ lastEvent' = Event("select", dom.rows[i].id, "list", "")
    /\ UNCHANGED <<forecastVars, listVars, page, callVars, backendVars, hist>>

DismissModal ==
    /\ UNCHANGED <<decodeVars, formVars, registerVars>>
    /\ page = "app" /\ dom.modal # <<>>
    /\ dom' = [dom EXCEPT !.modal = <<>>]
    /\ lastEvent' = Quiet
    /\ UNCHANGED <<forecastVars, listVars, page, callVars, backendVars, hist>>

\* The success handler (doOnThen) of a call, on the triple (locations, DOM,
\* savedLocations); threw = TRUE when it ends with an exception.
doOnThen(c, st) ==
    CASE c.op = "get" ->
           LET st1 == [st EXCEPT !.saved = Array(c.resp.locations)] IN
           IF initRan THEN displaySavedLocations(st1, c.resp.locations) ELSE st1
      [] c.op = "add" -> addLocationToListAction(st, c.location, c.resp.message)
      [] c.op = "remove" /\ c.row # 0 ->
           IF RowIndex(st.dom.rows, c.row) = 0
           THEN [st EXCEPT !.threw = TRUE]    \* removeChild: NotFoundError
           ELSE [st EXCEPT !.dom = removeLocationFromDOM(st.dom, c.row)]
      [] c.op = "remove" /\ c.row = 0 ->
           [st EXCEPT !.dom = clearLocationsFromDOM(st.dom)]

\* A status check that never throws.
IgnoreStatus(c) == FALSE

\* A redirect check that never finds changeToURL.
IgnoreChangeToURL(c) == FALSE

\* checkForErrors(jsonObj) throws: the response status is not ok.  The
\* Error it throws is built from jsonObj.data.message, where jsonObj.data
\* is the still pending promise of response.json(): undefined, so the
\* error's message is empty (CallError).
checkForErrors(c) == c.resp.kind = "status"

\* jsonObj.hasOwnProperty('changeToURL')
hasChangeToURL(c) == c.resp.url # ""

\* How far the promise chain of api.call gets before its success handler:
\* fetch rejects ("network"), checkForErrors throws ("status"), the body
\* promise it returns rejects ("decode"), the redirect check throws
\* ("denied"), or doOnThen is reached ("ok").
chainOutcome(c) ==
    CASE c.resp.kind = "network" -> "network"
      [] checkForErrors(c) -> "status"
      [] c.resp.kind = "decode" -> "decode"
      [] hasChangeToURL(c) -> "denied"
      [] OTHER -> "ok"

CallError(outcome) ==
    CASE outcome = "network" -> NetworkError
      [] outcome = "status" -> Err("Error", 0, "")
      [] outcome = "decode" -> JsonSyntaxError
      [] outcome = "denied" -> Err("Error", 0, "Access denied.")
      [] OTHER -> Err("NotFoundError", 0, "The node to be removed is not a child of this node.")

\* fetch(targetUrl) settles and the rest of api.call's chain runs.
ApiCallSettles(c, domReady) ==
    /\ UNCHANGED <<decodeVars, formVars, registerVars>>
    /\ c \in calls /\ c.stage = "done" /\ page = "app"
    /\ initRan => domReady
    /\ calls' = calls \ {c}
    /\ LET st0 == [locs |-> locations, dom |-> dom, saved |-> savedLocations,
                   threw |-> FALSE, rendered |-> hist.rendered]
           pre == chainOutcome(c)
           st1 == IF pre = "ok" THEN doOnThen(c, st0) ELSE st0
           outcome == IF pre = "ok" /\ st1.threw THEN "threw" ELSE pre
       IN  /\ locations' = st1.locs
           /\ savedLocations' = st1.saved
           /\ page' = IF outcome = "denied" THEN c.resp.url ELSE page
           /\ dom' = IF outcome = "ok"
                     THEN IF initRan THEN doAfterApiCall(st1.dom) ELSE st1.dom
                     ELSE IF domReady
                     THEN onErrorUseMessage(st1.dom, CallError(outcome), didReachServer)
                     ELSE st1.dom     \* TypeError: the elements are not there
           /\ hist' = [hist EXCEPT !.rendered = st1.rendered]
           /\ lastEvent' = Event("settled", c.id, c.op, outcome)
    /\ UNCHANGED <<forecastVars, initRan, nextCallId, backendVars>>

\* init, the DOMContentLoaded handler.
init ==
    /\ UNCHANGED <<decodeVars, formVars, registerVars>>
    /\ ~initRan /\ page = "app"
    /\ initRan' = TRUE
    /\ LET st0 == [locs |-> locations, dom |-> dom, saved |-> savedLocations,
                   threw |-> FALSE, rendered |-> hist.rendered]
           st1 == IF ~savedLocations.isNull
                  THEN displaySavedLocations(st0, savedLocations.list) ELSE st0
       IN  /\ locations' = st1.locs
           /\ dom' = st1.dom
           /\ hist' = [hist EXCEPT !.rendered = st1.rendered]
    /\ lastEvent' = Event("init", 0, "page", "")
    /\ UNCHANGED <<forecastVars, savedLocations, page, callVars, backendVars>>

\* =================================================================== backend
UserRows(rows, user) == {r \in rows : r.user = user}

RECURSIVE SortById(_)
SortById(rows) ==
    IF rows = {} THEN <<>>
    ELSE LET r == CHOOSE x \in rows : \A y \in rows : x.id <= y.id
         IN  <<[name |-> r.name, latlon |-> r.latlon]>> \o SortById(rows \ {r})

Respond(c, resp) == calls' = (calls \ {c}) \cup {[c EXCEPT !.stage = "done", !.resp = resp]}

\* assertLogin on /api: a request that arrives when req.session.isLoggedIn
\* is not set (the session cookie, maxAge one minute, has run out) is
\* answered {changeToURL: '/login'}.  Whether the session is live when a
\* request arrives is the environment's choice.
assertLogin(c) ==
    /\ UNCHANGED <<decodeVars, formVars, registerVars>>
    /\ c \in calls /\ c.stage = "sent"
    /\ Respond(c, Redirect("/login"))
    /\ lastEvent' = Quiet
    /\ UNCHANGED <<forecastVars, listVars, dom, page, nextCallId, backendVars, hist>>

\* getLocations
getLocations(c) ==
    /\ UNCHANGED <<decodeVars, formVars, registerVars>>
    /\ c \in calls /\ c.stage = "sent" /\ c.op = "get"
    /\ Respond(c, [OkResp("") EXCEPT
                      !.locations = SortById(UserRows(db.rows, c.user))])
    /\ lastEvent' = Quiet
    /\ UNCHANGED <<forecastVars, listVars, dom, page, nextCallId, backendVars, hist>>

\* addLocation: Location.findOne({where: {name, userId}})
addLocation(c) ==
    /\ UNCHANGED <<decodeVars, formVars, registerVars>>
    /\ c \in calls /\ c.stage = "sent" /\ c.op = "add"
    /\ LET mine == {r \in UserRows(db.rows, c.user) : r.name = c.location.name}
           found == IF mine = {} THEN 0
                    ELSE (CHOOSE r \in mine : \A y \in mine : r.id <= y.id).id
       IN  calls' = (calls \ {c}) \cup {[c EXCEPT !.stage = "found", !.target = found]}
    /\ lastEvent' = Quiet
    /\ UNCHANGED <<forecastVars, listVars, dom, page, nextCallId, backendVars, hist>>

\* updateLocation / doAfterUpdate: save the found record, or create one.
updateLocation(c) ==
    /\ UNCHANGED <<decodeVars, formVars, registerVars>>
    /\ c \in calls /\ c.stage = "found"
    /\ IF c.target # 0
       THEN /\ db' = [db EXCEPT !.rows =
                        {IF r.id = c.target
                         THEN [r EXCEPT !.latlon = c.location.latlon] ELSE r : r \in @}]
            /\ Respond(c, OkResp("Location updated."))
       ELSE /\ db' = [rows |-> db.rows \cup
                                {[id |-> db.nextId, user |-> c.user,
                                  name |-> c.location.name,
                                  latlon |-> c.location.latlon]},
                      nextId |-> db.nextId + 1]
            /\ Respond(c, OkResp("Location added."))
    /\ lastEvent' = Quiet
    /\ UNCHANGED <<forecastVars, listVars, dom, page, nextCallId, hist>>

\* removeLocations: Location.destroy({where: {name: locationNames}}), then
\* doAfterDelete: the answer is sent before the counts are compared; the
\* error thrown on a mismatch is logged by the catch handler, whose
\* apiLogout can no longer answer.
destroyed(rows, names) == {r \in rows : r.name \in SeqToSet(names)}

doAfterDelete(rowsDeleted) ==
    IF rowsDeleted > 0 THEN OkResp("Locations deleted.")
    ELSE OkResp("Locations don't exist in list.")

removeLocations(c) ==
    /\ UNCHANGED <<decodeVars, formVars, registerVars>>
    /\ c \in calls /\ c.stage = "sent" /\ c.op = "remove"
    /\ LET gone == destroyed(db.rows, c.names) IN
       /\ db' = [db EXCEPT !.rows = @ \ gone]
       /\ calls' = (calls \ {c}) \cup
                   {[c EXCEPT !.stage = "done", !.rowsDeleted = Cardinality(gone),
                              !.resp = doAfterDelete(Cardinality(gone))]}
    /\ lastEvent' = Quiet
    /\ UNCHANGED <<forecastVars, listVars, dom, page, nextCallId, hist>>

\* A controller's promise rejects (the database fails): its catch handler
\* calls apiLogout, which answers {changeToURL: '/login'}.
apiLogout(c) ==
    /\ UNCHANGED <<decodeVars, formVars, registerVars>>
    /\ c \in calls /\ c.stage \in {"sent", "found"}
    /\ Respond(c, Redirect("/login"))
    /\ lastEvent' = Quiet
    /\ UNCHANGED <<forecastVars, listVars, dom, page, nextCallId, backendVars, hist>>

\* The transport fails a call: the request or the answer is lost
\* ("network"), an intermediary answers with a non-ok status, or the body
\* of an ok answer is not JSON ("decode").
CallFails(c, kind) ==
    /\ UNCHANGED <<decodeVars, formVars, registerVars>>
    /\ c \in calls
    /\ c.stage = "sent" \/ (c.stage = "done" /\ c.resp.kind = "ok")
    /\ Respond(c, IF kind = "status" THEN StatusAnswer
                   ELSE [NoResp EXCEPT !.kind = kind])
    /\ lastEvent' = Quiet
    /\ UNCHANGED <<forecastVars, listVars, dom, page, nextCallId, backendVars, hist>>

\* ============================================================== registration
\* The register controller.  A browser holds its cookies: the session
\* cookie, behind which req.session lives, and the signed RegisterStart
\* cookie.  firstName and lastName travel with the email and are left out.
Browsers == {"b1", "b2"}
Emails == {"x@h", "y@h"}
Passwords == {"p", "q"}
\* A field the form did not send, or sent empty, is "": both are falsy.
RegisterBodies ==
    [email : Emails \cup {""}, password : Passwords \cup {""},
     confirm_password : Passwords \cup {""}]

\* The User table with the given emails taken (a record created later has
\* the number of its request as id), sessions without
\* credentials (req.session.credentials undefined is <<>>), no RegisterStart
\* cookie, no request being served.
InitialRegistration(taken) ==
    [users |-> {[id |-> 0, email |-> e, password |-> "p"] : e \in taken},
     session |-> [b \in Browsers |-> [credentials |-> <<>>]],
     RegisterStart |-> [b \in Browsers |-> FALSE],
     requests |-> {},
     served |-> 0]

\* A marker check that never finds the registration expired.
NeverExpired(registerStart) == FALSE

\* didRegistrationExpire(req, res): cookies.get('RegisterStart') is
\* undefined.
didRegistrationExpire(registerStart) == ~registerStart

\* doPasswordsMatch(req, password, res)
doPasswordsMatch(password, confirmPassword) == password = confirmPassword

\* registerStep1 up to models.User.findOne: the lookup is under way.
registerStep1(reg, b, email) ==
    [reg EXCEPT !.requests = @ \cup
        {[id |-> reg.served + 1, browser |-> b, kind |-> "findOne",
          email |-> email, password |-> "", confirm_password |-> ""]}]

\* createUser up to models.User.create.  Reading
\* req.session.credentials.email of a session without credentials throws
\* a TypeError, and nothing is created.
createUser(reg, b, body) ==
    IF reg.session[b].credentials = <<>> THEN reg
    ELSE [reg EXCEPT !.requests = @ \cup
            {[id |-> reg.served + 1, browser |-> b, kind |-> "create",
              email |-> reg.session[b].credentials[1],
              password |-> body.password,
              confirm_password |-> body.confirm_password]}]

\* registerStep2(req, res, password)
registerStep2(reg, b, body) ==
    LET registrationExpired == didRegistrationExpire(reg.RegisterStart[b])
        passwordsMatch == doPasswordsMatch(body.password, body.confirm_password)
    IN  IF ~registrationExpired /\ passwordsMatch
        THEN createUser(reg, b, body) ELSE reg

\* register(req, res): POST /register from browser b.
register(b, body) ==
    /\ registration.served < MaxRequests
    /\ registration' =
         [(IF body.email # "" THEN registerStep1(registration, b, body.email)
           ELSE IF body.password # "" THEN registerStep2(registration, b, body)
           ELSE registration)
          EXCEPT !.served = @ + 1]
    /\ UNCHANGED <<forecastVars, listVars, dom, page, callVars, backendVars,
                   lastEvent, hist, decodeVars, formVars>>

\* The then-handler of registerStep1: User.findOne has resolved.
findOneResolves(r) ==
    /\ r \in registration.requests /\ r.kind = "findOne"
    /\ registration' =
         IF \A user \in registration.users : user.email # r.email
         THEN [registration EXCEPT
                 !.requests = @ \ {r},
                 !.session[r.browser].credentials = <<r.email>>,
                 !.RegisterStart[r.browser] = TRUE]
         ELSE [registration EXCEPT !.requests = @ \ {r}]
    /\ UNCHANGED <<forecastVars, listVars, dom, page, callVars, backendVars,
                   lastEvent, hist, decodeVars, formVars>>

\* models.User.create resolves: the record is in the table.
createResolves(r) ==
    /\ r \in registration.requests /\ r.kind = "create"
    /\ registration' =
         [registration EXCEPT
            !.requests = @ \ {r},
            !.users = @ \cup {[id |-> r.id, email |-> r.email,
                               password |-> r.password]}]
    /\ UNCHANGED <<forecastVars, listVars, dom, page, callVars, backendVars,
                   lastEvent, hist, decodeVars, formVars>>

\* A database call of the controller rejects: its catch handler renders the
\* login page with status 500.
registerFails(r) ==
    /\ r \in registration.requests
    /\ registration' = [registration EXCEPT !.requests = @ \ {r}]
    /\ UNCHANGED <<forecastVars, listVars, dom, page, callVars, backendVars,
                   lastEvent, hist, decodeVars, formVars>>

\* maxAge of the RegisterStart cookie has passed: the browser drops it.
RegisterStartExpires(b) ==
    /\ registration.RegisterStart[b]
    /\ registration' = [registration EXCEPT !.RegisterStart[b] = FALSE]
    /\ UNCHANGED <<forecastVars, listVars, dom, page, callVars, backendVars,
                   lastEvent, hist, decodeVars, formVars>>

\* maxAge of the session cookie has passed: the browser's next request
\* opens a new session.
SessionExpires(b) ==
    /\ registration.session[b].credentials # <<>>
    /\ registration' = [registration EXCEPT !.session[b].credentials = <<>>]
    /\ UNCHANGED <<forecastVars, listVars, dom, page, callVars, backendVars,
                   lastEvent, hist, decodeVars, formVars>>

\* ============================================================ specification
\* The page as served: nothing shown in the forecast section, no rows, and
\* the eager get-locations call under way.  The user has no saved location, or two.
InitialDom ==
    [carousel |-> FALSE, loadingImage |-> FALSE, forecastImage |-> FALSE,
     imgSrc |-> "none", imgLoading |-> FALSE, title |-> "", cards |-> 0,
     modal |-> <<>>, rows |-> <<>>, nextRowId |-> 1,
     noLocationsYet |-> FALSE, clearButton |-> FALSE, locationsDiv |-> FALSE,
     apiLoading |-> FALSE]

InitialTables ==
    { [rows |-> {}, nextId |-> 1],
      [rows |-> {[id |-> 1, user |-> "me", name |-> "a", latlon |-> "31,35"],
                 [id |-> 2, user |-> "me", name |-> "b  c", latlon |-> "48,2"]},
       nextId |-> 3] }

Init ==
    /\ isAPICallDone = FALSE
    /\ isIMGCallDone = FALSE
    /\ didReachServer = FALSE
    /\ singletonRequestId = 0
    /\ singletonAbortController = 0
    /\ fetches = {}
    /\ locations = <<>>
    /\ dom = InitialDom
    /\ initRan = FALSE
    /\ savedLocations = null
    /\ page = "app"
    /\ calls = {Call(1, "get", NoLocation, <<>>, 0)}
    /\ nextCallId = 1
    /\ db \in InitialTables
    /\ lastEvent = Event("load", 1, "get", "sent")
    /\ hist = [data |-> FALSE, image |-> FALSE, failed |-> FALSE,
               afterError |-> FALSE, rendered |-> 0, name |-> ""]
    /\ clock = 20240227
    /\ decoded = <<>>
    /\ form = InitialForm
    /\ validated = NothingValidated
    /\ probe = NoProbe
    /\ domAccess = InitialDomAccess
    /\ registration = InitialRegistration({})

Statuses == {200, 404, 500}
CallFailures == {"network", "status", "decode"}
Bodies == {"valid", "invalid", "syntax"}

Next ==
    \/ init
    \/ \E i \in 1..Len(dom.rows) : SelectRow(i)
    \/ handleDisplayForecastButtonClick
    \/ \E f \in fetches, status \in Statuses : FetchResolves(f, status)
    \/ \E f \in fetches, body \in Bodies : FetchBodySettles(f, body)
    \/ \E f \in fetches : FetchFails(f)
    \/ \E f \in fetches, message \in AbortMessages : FetchAborts(f, message)
    \/ \E kind \in {"load", "error"} : ImageEvent(kind)
    \/ \E name \in Names, latlon \in Coords : handleFormSubmission(name, latlon)
    \/ \E i \in 1..Len(dom.rows) : handleDeleteButtonClick(i)
    \/ handleClearButtonClick
    \/ DismissModal
    \/ \E c \in calls, domReady \in BOOLEAN : ApiCallSettles(c, domReady)
    \/ \E c \in calls : assertLogin(c)
    \/ \E c \in calls : getLocations(c)
    \/ \E c \in calls : addLocation(c)
    \/ \E c \in calls : updateLocation(c)
    \/ \E c \in calls : removeLocations(c)
    \/ \E c \in calls : apiLogout(c)
    \/ \E c \in calls, kind \in CallFailures : CallFails(c, kind)

Spec == Init /\ [][Next]_vars

\* The same, with a transport that may not honour the abort signal.
NextLate ==
    \/ Next
    \/ \E f \in fetches, status \in Statuses : LateFetchResolves(f, status)
    \/ \E f \in fetches, body \in Bodies : LateFetchBodySettles(f, body)

SpecLate == Init /\ [][NextLate]_vars

\* The forecast path alone, with the response bodies spelled out and the
\* user's clock drawn from several days.
Todays == {20240227, 20240222, 20231229}
PackedDates == {20240221, 20240222, 20240226, 20240227, 20240229, 20240230,
                20240301, 20240305, 20240306, 20231229, 20231232, 20240100,
                20240105, 20240106}
WeatherCodes == {"clear", "fog", "constructor"}
WindCodes == {"1", "3", "9", "toString"}
DayEntries ==
    [date : PackedDates, weather : {"clear"}, wind10m_max : {"1"}] \cup
    [date : {20240227}, weather : WeatherCodes, wind10m_max : WindCodes]
FirstEntries == [date : {20240227}, weather : {"clear"}, wind10m_max : {"1"}]
DataSeries == {<<e>> : e \in DayEntries} \cup
              {<<g, e>> : g \in FirstEntries, e \in DayEntries}

InitDecode ==
    /\ isAPICallDone = FALSE
    /\ isIMGCallDone = FALSE
    /\ didReachServer = FALSE
    /\ singletonRequestId = 0
    /\ singletonAbortController = 0
    /\ fetches = {}
    /\ locations = <<>>
    /\ dom = InitialDom
    /\ initRan = FALSE
    /\ savedLocations = null
    /\ page = "app"
    /\ calls = {Call(1, "get", NoLocation, <<>>, 0)}
    /\ nextCallId = 1
    /\ db \in InitialTables
    /\ lastEvent = Event("load", 1, "get", "sent")
    /\ hist = [data |-> FALSE, image |-> FALSE, failed |-> FALSE,
               afterError |-> FALSE, rendered |-> 0, name |-> ""]
    /\ clock \in Todays
    /\ decoded = <<>>
    /\ form = InitialForm
    /\ validated = NothingValidated
    /\ probe = NoProbe
    /\ domAccess = InitialDomAccess
    /\ registration = InitialRegistration({})

NextDecode ==
    \/ init
    \/ \E c \in calls : assertLogin(c)
    \/ \E c \in calls : getLocations(c)
    \/ \E c \in calls, domReady \in BOOLEAN : ApiCallSettles(c, domReady)
    \/ \E i \in 1..Len(dom.rows) : SelectRow(i)
    \/ handleDisplayForecastButtonClick
    \/ \E f \in fetches : FetchResolves(f, 200)
    \/ \E f \in fetches, dataseries \in DataSeries : DecodeBody(f, dataseries)
    \/ \E kind \in {"load", "error"} : ImageEvent(kind)
    \/ DismissModal

SpecDecode == InitDecode /\ [][NextDecode]_vars

\* The form alone: keys typed into the lat and lon inputs.
Keys == {"9", "-", ".", "a", " "}

InitForm == Init /\ db.rows = {}

NextForm ==
    \/ init
    \/ \E inputId \in {"lat", "lon"}, key \in Keys \cup {"Backspace"} :
          handleLatLonKeyup(inputId, key)

SpecForm == InitForm /\ [][NextForm]_vars

\* The form under typing and submission: keys typed into the three inputs
\* and clicks on the submit button.
NameKeys == {"a", " "}
LatLonKeys == {"9", "a"}

NextSubmit ==
    \/ init
    \/ \E key \in NameKeys : handleNameKeyup(key)
    \/ \E inputId \in {"lat", "lon"}, key \in LatLonKeys :
          handleLatLonKeyup(inputId, key)
    \/ handleFormSubmissionEvent

SpecSubmit == InitForm /\ [][NextSubmit]_vars

\* The message selection alone, applied to every error summary.
GetErrorMessageCalled(errorSummary, isMissingMessage, notInRangeMessage) ==
    /\ probe' = [applied |-> TRUE, errorSummary |-> errorSummary,
                 isMissingMessage |-> isMissingMessage,
                 notInRangeMessage |-> notInRangeMessage,
                 errorMessage |->
                     errorMessagesGetErrorMessage(
                         errorSummary, isMissingMessage, notInRangeMessage)]
    /\ UNCHANGED <<forecastVars, listVars, dom, page, callVars, backendVars,
                   lastEvent, hist, decodeVars, form, validated, domAccess,
                   registerVars>>

NextMessages ==
    \E errorSummary \in ErrorSummaries,
       isMissingMessage \in ErrorMessageKeys,
       notInRangeMessage \in ErrorMessageKeys :
        GetErrorMessageCalled(errorSummary, isMissingMessage, notInRangeMessage)

SpecMessages == InitForm /\ [][NextMessages]_vars

\* The location list alone, on a transport and a backend that do not fail:
\* every call is answered by its controller and the answer arrives.
NextList ==
    \/ init
    \/ \E name \in Names, latlon \in Coords : handleFormSubmission(name, latlon)
    \/ \E i \in 1..Len(dom.rows) : handleDeleteButtonClick(i)
    \/ handleClearButtonClick
    \/ DismissModal
    \/ \E c \in calls, domReady \in BOOLEAN : ApiCallSettles(c, domReady)
    \/ \E c \in calls : getLocations(c)
    \/ \E c \in calls : addLocation(c)
    \/ \E c \in calls : updateLocation(c)
    \/ \E c \in calls : removeLocations(c)

SpecList == Init /\ [][NextList]_vars

\* The backend alone, serving the sessions of two users.  Both users have
\* stored a location named "a".
BackendTables ==
    { [rows |-> {}, nextId |-> 1],
      [rows |-> {[id |-> 1, user |-> "me", name |-> "a", latlon |-> "31,35"],
                 [id |-> 2, user |-> "other", name |-> "a", latlon |-> "48,2"],
                 [id |-> 3, user |-> "other", name |-> "b  c", latlon |-> "48,2"]},
       nextId |-> 4] }

\* req.body.locationNames of a removal request.
RemovalNames == {<<"a">>, <<"a", "b  c">>}

\* A request of a logged-in session reaches a route of /api: req.session
\* carries the user's id, req.body the location or the names.
Request(user, op, location, names) ==
    /\ UNCHANGED <<decodeVars, formVars, registerVars>>
    /\ CanStart
    /\ nextCallId' = nextCallId + 1
    /\ calls' = calls \cup
           {[Call(nextCallId + 1, op, location, names, 0) EXCEPT !.user = user]}
    /\ lastEvent' = Quiet
    /\ UNCHANGED <<forecastVars, listVars, dom, page, backendVars, hist>>

InitBackend ==
    /\ isAPICallDone = FALSE
    /\ isIMGCallDone = FALSE
    /\ didReachServer = FALSE
    /\ singletonRequestId = 0
    /\ singletonAbortController = 0
    /\ fetches = {}
    /\ locations = <<>>
    /\ dom = InitialDom
    /\ initRan = FALSE
    /\ savedLocations = null
    /\ page = "app"
    /\ calls = {}
    /\ nextCallId = 1
    /\ db \in BackendTables
    /\ lastEvent = Quiet
    /\ hist = [data |-> FALSE, image |-> FALSE, failed |-> FALSE,
               afterError |-> FALSE, rendered |-> 0, name |-> ""]
    /\ clock = 20240227
    /\ decoded = <<>>
    /\ form = InitialForm
    /\ validated = NothingValidated
    /\ probe = NoProbe
    /\ domAccess = InitialDomAccess
    /\ registration = InitialRegistration({})

NextBackend ==
    \/ \E user \in Users : Request(user, "get", NoLocation, <<>>)
    \/ \E user \in Users, name \in Names, latlon \in Coords :
           Request(user, "add", [name |-> name, latlon |-> latlon], <<>>)
    \/ \E user \in Users, names \in RemovalNames :
           Request(user, "remove", NoLocation, names)
    \/ \E c \in calls : getLocations(c)
    \/ \E c \in calls : addLocation(c)
    \/ \E c \in calls : updateLocation(c)
    \/ \E c \in calls : removeLocations(c)

SpecBackend == InitBackend /\ [][NextBackend]_vars

\* The register controller alone, serving two browsers.  One email may be
\* taken from the start.
InitRegister ==
    /\ isAPICallDone = FALSE
    /\ isIMGCallDone = FALSE
    /\ didReachServer = FALSE
    /\ singletonRequestId = 0
    /\ singletonAbortController = 0
    /\ fetches = {}
    /\ locations = <<>>
    /\ dom = InitialDom
    /\ initRan = FALSE
    /\ savedLocations = null
    /\ page = "app"
    /\ calls = {}
    /\ nextCallId = 1
    /\ db = [rows |-> {}, nextId |-> 1]
    /\ lastEvent = Quiet
    /\ hist = [data |-> FALSE, image |-> FALSE, failed |-> FALSE,
               afterError |-> FALSE, rendered |-> 0, name |-> ""]
    /\ clock = 20240227
    /\ decoded = <<>>
    /\ form = InitialForm
    /\ validated = NothingValidated
    /\ probe = NoProbe
    /\ domAccess = InitialDomAccess
    /\ registration \in {InitialRegistration({}), InitialRegistration({"x@h"})}

NextRegister ==
    \/ \E b \in Browsers, body \in RegisterBodies : register(b, body)
    \/ \E r \in registration.requests : findOneResolves(r)
    \/ \E r \in registration.requests : createResolves(r)
    \/ \E r \in registration.requests : registerFails(r)
    \/ \E b \in Browsers : RegisterStartExpires(b)
    \/ \E b \in Browsers : SessionExpires(b)

SpecRegister == InitRegister /\ [][NextRegister]_vars

\* ---------------------------------------------------------------------
\* Properties
\* ---------------------------------------------------------------------

RowIds(rows) == {rows[i].id : i \in 1..Len(rows)}
RowNames(rows) == {rows[i].name : i \in 1..Len(rows)}

\* The step settles call c: only ApiCallSettles takes a call out of calls.
Settles(c) == c \in calls /\ calls' = calls \ {c}

\* The backend call behind c succeeded: an ok answer that is no redirect.
Succeeded(c) == c.resp.kind = "ok" /\ c.resp.url = ""

\* C1: handling the data response of a forecast request that is no longer
\* the current one populates no card, does not raise isAPICallDone and
\* does not show the forecast panel; cards are populated and isAPICallDone
\* is raised only by handling a valid data response of the current request.
C1_StaleResponseDiscarded ==
    [][ /\ (lastEvent'.kind = "data" /\ lastEvent'.id # singletonRequestId')
            => /\ dom'.cards = dom.cards
               /\ isAPICallDone' => isAPICallDone
               /\ dom'.carousel => dom.carousel
        /\ (dom'.cards # dom.cards \/ (isAPICallDone' /\ ~isAPICallDone))
            => /\ lastEvent'.kind = "data" /\ lastEvent'.out = "valid"
               /\ lastEvent'.id = singletonRequestId'
               /\ dom'.cards = singletonRequestId' ]_vars

\* A valid data response of a superseded request has just been handled.
C1_StaleValidDataHandled ==
    /\ lastEvent.kind = "data" /\ lastEvent.out = "valid"
    /\ lastEvent.id < singletonRequestId
    /\ dom.cards # lastEvent.id

\* C2: while the forecast panel is shown, the data response of the latest
\* request and an image load or error event that came after that request
\* was issued have both been handled.
C2_PanelWaitsForBoth == dom.carousel => (hist.data /\ hist.image)

\* C3: in every state between handlers the forecast panel is visible
\* exactly when data-ready and image-ready are both true.
C3_PanelIffBothFlags == dom.carousel <=> (isAPICallDone /\ isIMGCallDone)

\* C4: right after a forecast request is issued both readiness flags are
\* false, the loading indicator is shown and the forecast image and the
\* forecast panel are hidden.
C4_IssueResets ==
    (lastEvent.kind = "issue" /\ lastEvent.out = "sent")
        => /\ ~isAPICallDone /\ ~isIMGCallDone
           /\ dom.loadingImage /\ ~dom.forecastImage /\ ~dom.carousel

\* C5: once the valid data response of the current request and an image
\* event have both been handled, whichever came last, the panel is shown,
\* the loading indicator is hidden and the forecast image is visible.
C5_EitherOrder ==
    ( /\ hist.data /\ hist.image
      /\ \/ lastEvent.kind = "image"
         \/ /\ lastEvent.kind = "data" /\ lastEvent.out = "valid"
            /\ lastEvent.id = singletonRequestId )
        => (dom.carousel /\ ~dom.loadingImage /\ dom.forecastImage)

\* C6: no location name ever has two rows in the rendered list.
C6_OneRowPerName ==
    \A i, j \in 1..Len(dom.rows) :
        dom.rows[i].name = dom.rows[j].name => i = j

\* C7: when every backend call has completed, the names in the locations
\* map are exactly the names of the rendered rows.
C7_MapMirrorsList ==
    (initRan /\ page = "app" /\ calls = {})
        => DOMAIN locations = RowNames(dom.rows)

\* C8: a removal whose backend deletion count differs from the number of
\* names requested is never answered to the client as an ordinary success.
C8_CountMismatchIsFatal ==
    \A c \in calls :
        (c.op = "remove" /\ c.stage = "done" /\ chainOutcome(c) = "ok")
            => c.rowsDeleted = Len(c.names)

C10_AddOnlyAfterBackend ==
    [][ /\ (locations' # locations \/ RowIds(dom'.rows) \ RowIds(dom.rows) # {})
            => \/ \E c \in calls :
                      Settles(c) /\ c.op \in {"add", "get"} /\ Succeeded(c)
               \/ ~initRan /\ initRan'
        /\ \A c \in calls :
               (Settles(c) /\ c.op = "add" /\ ~Succeeded(c))
                   => (dom'.rows = dom.rows /\ locations' = locations)
        /\ \A c \in calls :
               (Settles(c) /\ c.op = "add" /\ Succeeded(c))
                   => /\ Has(locations', c.location.name)
                      /\ locations'[c.location.name] = c.location
        /\ ( \/ ~initRan /\ initRan' /\ ~savedLocations.isNull
             \/ \E c \in calls :
                    Settles(c) /\ c.op = "get" /\ Succeeded(c) /\ initRan )
            => /\ nextCallId' = nextCallId /\ calls' \subseteq calls
               /\ \A l \in SeqToSet(savedLocations'.list) :
                      Has(locations', l.name) ]_vars

\* A failed add has just been handled.
C10_AddFailed ==
    /\ lastEvent.kind = "settled" /\ lastEvent.op = "add"
    /\ lastEvent.out \in {"network", "status", "denied"}

\* C11: when the answer of an API call carries changeToURL, handling it
\* navigates to that URL, does not run the call's success handler (map,
\* rows and savedLocations keep their values) and runs its error handler
\* with the access-denied error (the dialog shows 'Access denied.').
C11_RedirectIsAccessDenied ==
    [][ \A c \in calls :
            (Settles(c) /\ c.resp.kind = "ok" /\ c.resp.url # "")
                => /\ page' = c.resp.url
                   /\ locations' = locations
                   /\ dom'.rows = dom.rows
                   /\ savedLocations' = savedLocations
                   /\ lastEvent'.out = "denied"
                   /\ initRan => /\ dom'.modal = <<"Access denied.">>
                                 /\ ~dom'.carousel ]_vars

\* An answer carrying changeToURL has just been handled on the loaded page.
C11_RedirectHandled ==
    /\ lastEvent.kind = "settled" /\ lastEvent.out = "denied"
    /\ page = "/login" /\ dom.modal = <<"Access denied.">>

C14_StatusErrorCarriesBodyMessage ==
    [][ \A c \in calls :
            (Settles(c) /\ c.resp.kind = "status" /\ initRan)
                => /\ locations' = locations
                   /\ dom'.rows = dom.rows
                   /\ dom'.modal = <<c.resp.message>> ]_vars

\* C15: handling a response of a forecast data request that is no longer
\* the current one, its status line or its body, changes no client state:
\* isAPICallDone, isIMGCallDone, didReachServer, the cards and the
\* visibility of panel, forecast image and loading indicator keep their
\* values.
C15_StaleResponseChangesNothing ==
    [][ ( /\ lastEvent'.kind \in {"response", "data"}
          /\ lastEvent'.out \in {"ok", "status", "valid", "invalid", "syntax"}
          /\ lastEvent'.id # singletonRequestId' )
            => /\ UNCHANGED <<isAPICallDone, isIMGCallDone, didReachServer>>
               /\ dom'.cards = dom.cards
               /\ dom'.carousel = dom.carousel
               /\ dom'.forecastImage = dom.forecastImage
               /\ dom'.loadingImage = dom.loadingImage ]_vars

\* C16: handling the outcome of a forecast data fetch that a newer request
\* has cancelled shows no error dialog and leaves the panel, the forecast
\* image and the loading indicator as they are.
C16_CancelledFetchInvisible ==
    [][ (lastEvent'.kind = "data" /\ lastEvent'.out = "abort")
            => /\ dom'.modal = dom.modal
               /\ dom'.carousel = dom.carousel
               /\ dom'.forecastImage = dom.forecastImage
               /\ dom'.loadingImage = dom.loadingImage
               /\ dom'.imgSrc = dom.imgSrc ]_vars

\* The handler that ran last handled a failure of the current request's
\* forecast data path (not a cancellation).
DataPathJustFailed ==
    /\ lastEvent.op = "forecast" /\ lastEvent.id = singletonRequestId
    /\ \/ lastEvent.kind = "response" /\ lastEvent.out = "status"
       \/ lastEvent.kind = "data" /\ lastEvent.out \in {"invalid", "syntax", "network"}

\* C17: right after a failure of the forecast data path the error dialog
\* is open and the panel and the loading indicator are hidden; the panel
\* stays hidden as long as no new request is issued; and the request issued
\* next behaves as one issued from the idle state, where the panel is not
\* shown on the data response alone, before an image event of that request.
C17_ErrorThenIdle ==
    /\ DataPathJustFailed
           => (dom.modal # <<>> /\ ~dom.carousel /\ ~dom.loadingImage)
    /\ hist.failed => ~dom.carousel
    /\ (hist.afterError /\ hist.data /\ ~hist.image) => ~dom.carousel

\* The step decodes the body of fetch f; decoded' is then its dataseries.
Decodes(f) ==
    /\ f \in fetches /\ f.stage = "body" /\ fetches' = fetches \ {f}
    /\ lastEvent'.kind = "data"

NotInTables(dailyForecast) ==
    \/ dailyForecast.weather \notin _7timer_weatherTypeToDesc
    \/ dailyForecast.wind10m_max \notin _7timer_windValuesToDesc

\* C18: when any day entry of a response carries a weather code or a wind
\* code that is not a key of the lookup tables, the data path fails with the
\* invalid-data error: no card is populated, the data-ready flag is not
\* raised and the error dialog is shown.
C18_UnknownCodeFails ==
    [][\A f \in fetches :
         (Decodes(f) /\ \E i \in 1..Len(decoded') : NotInTables(decoded'[i]))
         => /\ lastEvent'.out = "invalid"
            /\ dom'.cards = dom.cards
            /\ isAPICallDone' = isAPICallDone
            /\ dom'.modal # <<>>]_vars

\* The fields of a packed date name a day of the calendar.
IsCalendarDate(v) ==
    LET y == v \div 10000
        m == (v \div 100) % 100
        d == v % 100
    IN m \in 1..12 /\ d \in 1..DaysInMonth(y, m)

\* C19: a packed date whose day and month fields do not name a real day of
\* the calendar (20240230, say) is never accepted: decoding a response that
\* holds one fails with the invalid-data error on every day the clock can
\* show.
C19_ImpossibleDateFails ==
    [][\A f \in fetches :
         (Decodes(f)
          /\ \E i \in 1..Len(decoded') : ~IsCalendarDate(decoded'[i].date))
         => lastEvent'.out = "invalid"]_vars

\* The calendar day after the packed calendar date v, packed.
NextDay(v) ==
    LET y == v \div 10000
        m == (v \div 100) % 100
        d == v % 100
    IN IF d < DaysInMonth(y, m) THEN v + 1
       ELSE IF m < 12 THEN y * 10000 + (m + 1) * 100 + 1
       ELSE (y + 1) * 10000 + 101
RECURSIVE DaysLater(_, _)
DaysLater(v, n) == IF n = 0 THEN v ELSE NextDay(DaysLater(v, n - 1))

\* today, today + 1 day, ..., today + 7 days, as packed dates.
CalendarWindow(now) == {DaysLater(now, n) : n \in 0..7}

\* C20: a response whose entries carry real calendar dates and codes of the
\* tables is accepted exactly when every date, read as year = v div 10000,
\* month = (v div 100) mod 100, day = v mod 100, is one of the eight days
\* from today to today + 7 days inclusive; otherwise the invalid-data error
\* is raised.
C20_AcceptedIffInWindow ==
    [][\A f \in fetches :
         (Decodes(f)
          /\ \A i \in 1..Len(decoded') :
               IsCalendarDate(decoded'[i].date) /\ ~NotInTables(decoded'[i]))
         => /\ lastEvent'.out \in {"valid", "invalid"}
            /\ lastEvent'.out = "valid" <=>
                 \A i \in 1..Len(decoded') :
                    decoded'[i].date \in CalendarWindow(clock)]_vars

\* An entry dated seven days after today, in the next year, was accepted.
C20_LastDayAccepted ==
    /\ lastEvent.kind = "data" /\ lastEvent.out = "valid"
    /\ clock = 20231229
    /\ \E i \in 1..Len(decoded) : decoded[i].date = 20240105

FetchIds(fs) == {f.id : f \in fs}

\* C21: the id a new request receives is greater than every id returned
\* before, and the validity test accepts the most recently returned id and
\* no earlier one, so at most one request in flight is current.
C21_OnlyLatestIdIsCurrent ==
    [][\A f \in fetches' :
         /\ f.id \notin FetchIds(fetches)
            => /\ f.id > singletonRequestId
               /\ \A g \in fetches : g.id < f.id
               /\ isSingletonRequestIdValid(f.id)'
         /\ isSingletonRequestIdValid(f.id)'
            => \A g \in fetches' : g.id <= f.id /\ (g.id = f.id => g = f)]_vars

\* Two requests are in flight; the later one is current, the earlier is not.
C21_TwoInFlight ==
    \E f, g \in fetches :
        /\ f.id < g.id
        /\ isSingletonRequestIdValid(g.id) /\ ~isSingletonRequestIdValid(f.id)

\* C22: a call of getSingletonAbortSignal aborts the controller stored by
\* the call before it and then stores a new one, so of the requests in
\* flight every one but the latest listens to an aborted signal and the
\* latest does not.
C22_AllButLatestCancelled ==
    \A f \in fetches : f.aborted <=> f.id # singletonAbortController

\* A first request's signal has been aborted by the second call.
C22_EarlierCancelled ==
    \E f, g \in fetches :
        f.id < g.id /\ f.aborted /\ g.id = singletonAbortController

SelectedRows(rows) == {i \in 1..Len(rows) : rows[i].selected}

\* C24: whatever rows are clicked, added, deleted or cleared, at most one
\* row carries the selected state, and a click on a row leaves exactly that
\* row selected and changes nothing else of the list.
C24_OneRowSelected ==
    [][/\ Cardinality(SelectedRows(dom'.rows)) <= 1
       /\ lastEvent'.kind = "select"
          => /\ Len(dom'.rows) = Len(dom.rows)
             /\ \A i \in 1..Len(dom'.rows) :
                   /\ dom'.rows[i].id = dom.rows[i].id
                   /\ dom'.rows[i].name = dom.rows[i].name
                   /\ dom'.rows[i].selected <=>
                        dom'.rows[i].id = lastEvent'.id]_vars

\* The second row was clicked while the first was selected.
C24_SelectionMoved ==
    /\ lastEvent.kind = "select"
    /\ Len(dom.rows) >= 2
    /\ lastEvent.id = dom.rows[2].id
    /\ SelectedRows(dom.rows) = {2}
    /\ isAPICallDone

\* C25: the saved locations are rendered by init when the answer to the
\* eager get-locations call came first and by the answer's handler when init
\* came first: never while init has not run, and exactly once when both
\* have happened.
C25_SavedRenderedOnce ==
    /\ hist.rendered = IF initRan /\ ~savedLocations.isNull THEN 1 ELSE 0
    /\ ~initRan => dom.rows = <<>>

\* The answer came after init and its handler rendered the two saved rows.
C25_RenderedByAnswer ==
    /\ lastEvent.kind = "settled" /\ lastEvent.op = "get"
    /\ lastEvent.out = "ok"
    /\ initRan /\ hist.rendered = 1 /\ Len(dom.rows) = 2

\* C26: a second call of a memoizing accessor with a key it has fetched
\* before, and without the refresh flag, answers from the cache and does
\* not query the document.
C26_SecondCallUsesCache ==
    (domAccess.lastCall.fetchedBefore /\ ~domAccess.lastCall.refresh)
        => ~domAccess.lastCall.queried

\* A string of an optional sign, digits and an optional dot with digits
\* after it; not the empty string.
IsDecimalNumeral(s) ==
    /\ s # <<>>
    /\ LET start == IF s[1] \in {"-", "+"} THEN 2 ELSE 1
           whole == DigitRun(s, start)
           dotted == start + whole <= Len(s) /\ s[start + whole] = "."
           frac == IF dotted THEN DigitRun(s, start + whole + 1) ELSE 0
       IN  /\ start = 2 => whole > 0
           /\ dotted => frac > 0
           /\ whole + frac > 0
           /\ (start - 1) + whole + (IF dotted THEN 1 + frac ELSE 0) = Len(s)

\* C27: isDecimal answers true exactly for the strings made of an optional
\* sign, digits and an optional fraction and nothing else; for the empty
\* string it answers false.
C27_DecimalIffNumeral ==
    validated.inputId # ""
        => (validated.errorSummary.isDecimal
              <=> IsDecimalNumeral(validated.stringValue))

\* C28: for every error summary the message chosen is the missing message
\* when isEmpty; else the not-decimal message when not isDecimal; else the
\* not-in-range message when not isInRange; else the empty string.
C28_MessagePrecedence ==
    probe.applied
        => probe.errorMessage =
             CASE probe.errorSummary.isEmpty -> probe.isMissingMessage
               [] ~probe.errorSummary.isEmpty /\ ~probe.errorSummary.isDecimal
                    -> "notDecimal"
               [] /\ ~probe.errorSummary.isEmpty
                  /\ probe.errorSummary.isDecimal
                  /\ ~probe.errorSummary.isInRange -> probe.notInRangeMessage
               [] OTHER -> ""

\* A summary with every flag of an error set was given the missing message.
C28_MissingWins ==
    /\ probe.applied
    /\ probe.errorSummary =
           [isEmpty |-> TRUE, isDecimal |-> FALSE, isInRange |-> FALSE]
    /\ probe.isMissingMessage = "latMissing"
    /\ probe.notInRangeMessage = "latNotInRange"
    /\ probe.errorMessage = "latMissing"

\* C29: for a value that is not empty and not a decimal numeral the summary
\* has isDecimal and isInRange false, whatever number the value begins
\* with, and the field shows the not-decimal message.
C29_NotDecimalMessage ==
    (/\ validated.inputId # ""
     /\ validated.stringValue # <<>>
     /\ ~IsDecimalNumeral(validated.stringValue))
        => /\ ~validated.errorSummary.isDecimal
           /\ ~validated.errorSummary.isInRange
           /\ form.error[validated.inputId] = <<"notDecimal">>

\* "9a", which begins with a latitude in range, shows the not-decimal
\* message.
C29_NineA ==
    /\ validated.inputId = "lat"
    /\ validated.stringValue = <<"9", "a">>
    /\ form.error.lat = <<"notDecimal">>

\* C30: after any additions, single deletions and clear-list, a row of the
\* list has rounded top corners exactly when it is the first row and
\* rounded bottom corners exactly when it is the last row.
C30_CornersFollowPosition ==
    \A i \in 1..Len(dom.rows) :
        /\ dom.rows[i].roundedTop <=> i = 1
        /\ dom.rows[i].roundedBottom <=> i = Len(dom.rows)

\* The first of three rows was deleted and two rows are left.
C30_TopRowDeleted ==
    /\ lastEvent.kind = "settled" /\ lastEvent.op = "remove"
    /\ lastEvent.out = "ok"
    /\ Len(dom.rows) = 2
    /\ dom.rows[1].id = 2 /\ dom.rows[2].id = 3
    /\ dom.rows[1].roundedTop /\ dom.rows[2].roundedBottom

\* C31: whenever no backend call is in flight, the rendered list holds
\* exactly the names stored in the backend for the session's user, and the
\* locations map holds the stored coordinates of each of them; in every
\* interleaving of the list load, the form's adds, the deletes and the
\* clear-list with the arrival of their answers.
C31_ListMirrorsBackend ==
    (initRan /\ page = "app" /\ calls = {})
        => /\ RowNames(dom.rows) = {r.name : r \in UserRows(db.rows, "me")}
           /\ \A r \in UserRows(db.rows, "me") :
                  /\ Has(locations, r.name)
                  /\ locations[r.name].latlon = r.latlon

\* C32: in backend storage no user has two location records with the
\* same name, also when add requests for the same name are served
\* concurrently.
C32_OneRecordPerName ==
    \A r1, r2 \in db.rows :
        (r1.user = r2.user /\ r1.name = r2.name) => r1.id = r2.id

\* C33: a location record leaves the storage only in the step that serves
\* a removal request of the record's own user; the records of the other
\* users, and so their get-locations answers, stay as they are.
C33_RemovalsAreOwn ==
    [][ \A u \in Users :
          (UserRows(db.rows, u) \ UserRows(db'.rows, u) # {})
              => \E c \in calls : /\ c.op = "remove" /\ c.stage = "sent"
                                  /\ c.user = u
                                  /\ c \notin calls' ]_vars

\* C34: whenever the forecast panel is shown, its title names the location
\* the forecast in the cards was requested for (as rendered, runs of
\* blanks collapsed), whichever of the data response and the image event
\* was handled last and whatever the user selected or deleted meanwhile.
C34_TitleNamesRequested ==
    dom.carousel => InnerText(dom.title) = InnerText(hist.name)

\* C35: a forecast data-path failure is reported under its own category:
\* invalid forecast data (a day outside the date window, an unrecognized
\* weather or wind code) as a malformed response, a fetch without response
\* as an unreachable network, a 4xx status as 4xx and a 5xx status as 5xx.
C35_FailureCategories ==
    [][ \A f \in fetches :
          /\ (Decodes(f) /\ ~getInterestingInfo(decoded', clock))
                => dom'.modal = <<"syntaxErrorMessage">>
          /\ FetchFails(f) => dom'.modal = <<"badConnection">>
          /\ \A status \in Statuses \ {200} :
                FetchResolves(f, status)
                    => dom'.modal = <<IF status < 500 THEN "errorCode4XX"
                                      ELSE "errorCode500">> ]_vars

\* C36: no completed API call leaves the list's loading indicator showing:
\* once every call that ran the before-hook has completed, with success or
\* with a failure, the indicator is hidden.
C36_NoCallLeavesLoading ==
    (initRan /\ page = "app" /\ calls = {}) => ~dom.apiLoading

\* A coordinate as typed is valid: a decimal numeral whose value lies
\* within the limits of its input.
IsValidCoordinate(s, id) ==
    /\ IsDecimalNumeral(s)
    /\ LET v == parseFloat(s) IN
       /\ v.num >= limits[id][1] * v.den
       /\ v.num <= limits[id][2] * v.den

\* C37: a form submission calls the backend add operation only if the
\* trimmed name is not empty and latitude and longitude are both valid; a
\* submission with an invalid field makes no backend call, leaves the
\* locations map, the rendered list and the typed values as they are,
\* opens no dialog and shows the error text of exactly the invalid inputs.
C37_SubmissionIsValidated ==
    [][ handleFormSubmissionEvent =>
          LET typed == collectLocationInfo(form)
              valid == [name |-> typed.name # <<>>,
                        lat |-> IsValidCoordinate(typed.lat, "lat"),
                        lon |-> IsValidCoordinate(typed.lon, "lon")]
              allValid == valid.name /\ valid.lat /\ valid.lon
          IN  /\ (calls' # calls) => allValid
              /\ ~allValid =>
                   /\ calls' = calls
                   /\ locations' = locations
                   /\ dom' = dom
                   /\ form'.value = form.value
                   /\ \A i \in {"name", "lat", "lon"} :
                          (form'.error[i] # <<>>) <=> ~valid[i] ]_vars

\* A submission with a name and a latitude out of range was refused.
C37_InvalidSubmission ==
    /\ lastEvent.kind = "submit" /\ lastEvent.out = "invalid"
    /\ form.value.name # <<>>
    /\ form.value.lat = <<"9", "9">>
    /\ form.error.lat = <<"latNotInRange">>
    /\ \A c \in calls : c.op # "add"

\* C38: a user record is created only by the User.create of a step-2
\* request; step 2 starts that creation only when the browser's session
\* holds credentials, its RegisterStart cookie is present and password
\* equals confirm_password, and creates the user of those credentials;
\* credentials come into a session only from step 1 of the same browser,
\* for an email its lookup found with no user.
C38_UserCreatedOnlyByStep2 ==
    [][ /\ (registration'.users # registration.users)
            => \E r \in registration.requests \ registration'.requests :
                  /\ r.kind = "create"
                  /\ registration'.users = registration.users \cup
                         {[id |-> r.id, email |-> r.email,
                           password |-> r.password]}
        /\ \A r \in registration'.requests \ registration.requests :
              r.kind = "create"
                  => /\ registration.session[r.browser].credentials = <<r.email>>
                     /\ registration.RegisterStart[r.browser]
                     /\ r.password # "" /\ r.password = r.confirm_password
        /\ \A b \in Browsers :
              (/\ registration'.session[b].credentials # <<>>
               /\ registration'.session[b].credentials
                      # registration.session[b].credentials)
                  => \E r \in registration.requests \ registration'.requests :
                        /\ r.kind = "findOne" /\ r.browser = b
                        /\ registration'.session[b].credentials = <<r.email>>
                        /\ \A user \in registration.users :
                               user.email # r.email ]_vars

\* Step 2 has created the user of an email that was free at the start.
C38_UserRegistered ==
    /\ \E user \in registration.users : user.email = "y@h"
    /\ registration.requests = {}

====
